---- MODULE Spec2Model ----
(***************************************************************************)
(* The PlaceOrder workflow (chapter 10, "Working with Errors") and the     *)
(* constrained simple types it is built on.                                *)
(*                                                                         *)
(* JavaScript values are modelled as follows.                              *)
(*   - a scalar is a record tagged with its typeof: [t |-> "string", s],   *)
(*     [t |-> "number", n], [t |-> "null"], [t |-> "undefined"];           *)
(*   - a string's content s is the sequence of its characters;             *)
(*   - a number n is held in hundredths (Scale = 100), so 5.00 is 500 and  *)
(*     0.05 is 5; the inputs are chosen so that every product and sum the  *)
(*     code computes is exact both here and in double arithmetic;          *)
(*   - an object is a record with the object's fields, an array a sequence;*)
(*   - a message built from a template literal is a record holding the     *)
(*     template and the values interpolated into it;                       *)
(*   - an exception leaving a function is the value [thrown |-> ...].      *)
(***************************************************************************)
EXTENDS Integers, Sequences, FiniteSets, TLC

VARIABLES order, pc, calls, frame, validated, priced, ack, result, call, returned

vars == <<order, pc, calls, frame, validated, priced, ack, result, call, returned>>

(***************************************************************************)
(* Bounds of the model.                                                    *)
(***************************************************************************)
\* the longest list of arbitrary order lines
MaxLines == 2
\* the longest list of identical order lines
MaxBulkLines == 11

(***************************************************************************)
(* Values.                                                                 *)
(***************************************************************************)
Scale == 100

Null == [t |-> "null"]

Undefined == [t |-> "undefined"]

Unset == [t |-> "unset"]

Str(chars) == [t |-> "string", s |-> chars]

Num(n) == [t |-> "number", n |-> n]

IsString(v) == "t" \in DOMAIN v /\ v.t = "string"

IsNumber(v) == "t" \in DOMAIN v /\ v.t = "number"

IsThrown(v) == "thrown" \in DOMAIN v

TypeError == [thrown |-> "TypeError"]

\* isErr and splitErr are imported from simple-types; they tell the tagged
\* error values from the ordinary ones
isErr(v) == "errType" \in DOMAIN v

RECURSIVE SelectErr(_, _)
SelectErr(values, wantErr) ==
    IF values = <<>> THEN <<>>
    ELSE IF isErr(Head(values)) = wantErr
         THEN <<Head(values)>> \o SelectErr(Tail(values), wantErr)
         ELSE SelectErr(Tail(values), wantErr)

splitErr(values) == <<SelectErr(values, FALSE), SelectErr(values, TRUE)>>

(***************************************************************************)
(* Regular expressions.  new RegExp('W\d{4}') is given a string literal:   *)
(* in a string literal a backslash before a character that starts no       *)
(* escape sequence is dropped, so the pattern's source is Wd{4}.           *)
(***************************************************************************)
Digits == {"0", "1", "2", "3", "4", "5", "6", "7", "8", "9"}

DigitVal(c) ==
    CASE c = "0" -> 0 [] c = "1" -> 1 [] c = "2" -> 2 [] c = "3" -> 3
      [] c = "4" -> 4 [] c = "5" -> 5 [] c = "6" -> 6 [] c = "7" -> 7
      [] c = "8" -> 8 [] c = "9" -> 9

\* the string a string literal denotes: a backslash and the character after
\* it denote that character (the escaped backslash, and the characters such
\* as d that start no escape sequence; the patterns use no other escape)
RECURSIVE StringLiteral(_)
StringLiteral(lit) ==
    IF lit = <<>> THEN <<>>
    ELSE IF lit[1] = "\\" /\ Len(lit) >= 2
         THEN <<lit[2]>> \o StringLiteral(SubSeq(lit, 3, Len(lit)))
         ELSE <<lit[1]>> \o StringLiteral(Tail(lit))

\* a pattern's source as a sequence of atoms [cls, ch, lo, unbounded]:
\* cls is "digit" (\d), "any" (.) or "lit" (the character ch); the atom
\* matches lo times ({lo}), or lo times or more (+)
RECURSIVE ParseRegExp(_)
ParseRegExp(src) ==
    IF src = <<>> THEN <<>>
    ELSE
      LET esc   == src[1] = "\\" /\ Len(src) >= 2
          used  == IF esc THEN 2 ELSE 1
          c     == src[used]
          cls   == IF esc /\ c = "d" THEN "digit"
                   ELSE IF ~esc /\ c = "." THEN "any"
                   ELSE "lit"
          rest  == SubSeq(src, used + 1, Len(src))
          brace == Len(rest) >= 3 /\ rest[1] = "{" /\ rest[2] \in Digits /\ rest[3] = "}"
          plus  == Len(rest) >= 1 /\ rest[1] = "+"
          atom  == [cls |-> cls, ch |-> c,
                    lo |-> IF brace THEN DigitVal(rest[2]) ELSE 1,
                    unbounded |-> plus]
          after == IF brace THEN SubSeq(rest, 4, Len(rest))
                   ELSE IF plus THEN Tail(rest)
                   ELSE rest
      IN <<atom>> \o ParseRegExp(after)

RegExp(lit) == ParseRegExp(StringLiteral(lit))

AtomAccepts(atom, c) ==
    CASE atom.cls = "digit" -> c \in Digits
      [] atom.cls = "any"   -> c # "\n"
      [] OTHER              -> c = atom.ch

\* the positions at which a match of atoms, started at position i, can end
RECURSIVE MatchEnds(_, _, _)
MatchEnds(atoms, str, i) ==
    IF atoms = <<>> THEN {i}
    ELSE
      LET a == Head(atoms)
          Run(k) == \A j \in i .. (i + k - 1) : j <= Len(str) /\ AtomAccepts(a, str[j])
          counts == {k \in a.lo .. (IF a.unbounded THEN Len(str) ELSE a.lo) : Run(k)}
      IN UNION {MatchEnds(Tail(atoms), str, i + k) : k \in counts}

\* pattern.test(str): the pattern is not anchored, a match may start anywhere
RegExpTest(pattern, str) ==
    \E i \in 1 .. (Len(str) + 1) : MatchEnds(pattern, str, i) # {}

\* str.startsWith(prefix)
startsWith(str, prefix) ==
    Len(str) >= Len(prefix) /\ SubSeq(str, 1, Len(prefix)) = prefix

(***************************************************************************)
(* ConstrainedType: the reusable constructors.                             *)
(***************************************************************************)
isEmptyString(str) == str \in {Null, Undefined, Str(<<>>)}

\* createString refusing a string of exactly maxLen characters
createString_TooLongAtMaxLen(fieldName, maxLen, str) ==
    IF isEmptyString(str)
    THEN [errType |-> "Empty",
          msg |-> [fmt |-> "${fieldName} must not be null or undefined or empty",
                   fieldName |-> fieldName]]
    ELSE IF Len(str.s) >= maxLen
    THEN [errType |-> "TooLong",
          msg |-> [fmt |-> "${fieldName} must not be more than ${maxLen} chars",
                   fieldName |-> fieldName, maxLen |-> maxLen]]
    ELSE str

createString(fieldName, maxLen, str) ==
    IF isEmptyString(str)
    THEN [errType |-> "Empty",
          msg |-> [fmt |-> "${fieldName} must not be null or undefined or empty",
                   fieldName |-> fieldName]]
    ELSE IF Len(str.s) > maxLen
    THEN [errType |-> "TooLong",
          msg |-> [fmt |-> "${fieldName} must not be more than ${maxLen} chars",
                   fieldName |-> fieldName, maxLen |-> maxLen]]
    ELSE str

createStringOption(fieldName, maxLen, str) ==
    LET s == createString(fieldName, maxLen, str)
    IN IF IsString(s) THEN s
       ELSE IF s.errType = "Empty" THEN Null
       ELSE s

isInteger(i) == i.n % Scale = 0

createInt(fieldName, minVal, maxVal, i) ==
    IF i.n < minVal
    THEN [errType |-> "TooSmall",
          msg |-> [fmt |-> "${i}: Must not be less than ${minVal}", i |-> i.n, minVal |-> minVal]]
    ELSE IF i.n > maxVal
    THEN [errType |-> "TooBig",
          msg |-> [fmt |-> "${i}: Must not be greater than ${maxVal}", i |-> i.n, maxVal |-> maxVal]]
    ELSE IF ~isInteger(i)
    THEN [errType |-> "NotInt", msg |-> [fmt |-> "${i}: Must be integer", i |-> i.n]]
    ELSE i

createDecimal(fieldName, minVal, maxVal, i) ==
    IF i.n < minVal
    THEN [errType |-> "TooSmall",
          msg |-> [fmt |-> "${i}: Must not be less than ${minVal}", i |-> i.n, minVal |-> minVal]]
    ELSE IF i.n > maxVal
    THEN [errType |-> "TooBig",
          msg |-> [fmt |-> "${i}: Must not be greater than ${maxVal}", i |-> i.n, maxVal |-> maxVal]]
    ELSE IF ~isInteger(i)
    THEN [errType |-> "NotDecimal", msg |-> [fmt |-> "${i}: Must be decimal", i |-> i.n]]
    ELSE i

createLike(fieldName, pattern, str) ==
    IF isEmptyString(str)
    THEN [errType |-> "Empty", msg |-> [fmt |-> "${str}: Must not be null or empty", str |-> str]]
    ELSE IF ~RegExpTest(pattern, str.s)
    THEN [errType |-> "DoesNotMatch", msg |-> [fmt |-> "${str}: Must not be null or empty", str |-> str]]
    ELSE str

(***************************************************************************)
(* The simple types of the OrderTaking domain.                             *)
(***************************************************************************)
String50_create(fieldName, str) == createString(fieldName, 50, str)

EmailAddress_create(fieldName, str) ==
    createLike(fieldName, RegExp(<<".", "+", "@", ".", "+", "]">>), str)

ZipCode_create(fieldName, str) ==
    createLike(fieldName, RegExp(<<"\\", "d", "{", "5", "}">>), str)

OrderId_create(fieldName, str) == createString(fieldName, 50, str)

OrderLineId_create(fieldName, str) == createString(fieldName, 50, str)

WidgetCode_create(fieldName, str) ==
    LET return(code) ==
            IF IsString(code) THEN [productType |-> "widget", code |-> code] ELSE code
    IN return(createLike(fieldName, RegExp(<<"W", "\\", "d", "{", "4", "}">>), str))

GizmoCode_create(fieldName, str) ==
    LET return(code) ==
            IF IsString(code) THEN [productType |-> "gizmo", code |-> code] ELSE code
    IN return(createLike(fieldName, RegExp(<<"G", "\\", "d", "{", "3", "}">>), str))

\* code.startsWith throws a TypeError when code is null or undefined
ProductCode_create(fieldName, code) ==
    IF ~IsString(code) THEN TypeError
    ELSE IF startsWith(code.s, <<"W">>) THEN WidgetCode_create(fieldName, code)
    ELSE IF startsWith(code.s, <<"G">>) THEN GizmoCode_create(fieldName, code)
    ELSE [errType |-> "UnknownFormat",
          msg |-> [fmt |-> "${fieldName}: Format not recognized '${code}'",
                   fieldName |-> fieldName, code |-> code]]

UnitQuantity_create(fieldName, v) ==
    LET quantity == createInt(fieldName, 1 * Scale, 1000 * Scale, v)
    IN IF IsNumber(quantity) THEN [quantityType |-> "Unit", quantity |-> quantity]
       ELSE quantity

\* the lower bound in the code is 0.5
KilogramQuantity_create(fieldName, v) ==
    LET quantity == createDecimal(fieldName, Scale \div 2, 100 * Scale, v)
    IN IF IsNumber(quantity) THEN [quantityType |-> "Kilogram", quantity |-> quantity]
       ELSE quantity

OrderQuantity_create(fieldName, productCode, v) ==
    CASE productCode.productType = "widget" -> UnitQuantity_create(fieldName, v)
      [] productCode.productType = "gizmo"  -> KilogramQuantity_create(fieldName, v)

Price_create(v) == createDecimal("Price", 0, 1000 * Scale, v)

\* qty.quantity * price, both in hundredths
Price_multiply(qty, price) == Price_create(Num((qty.quantity.n * price.n) \div Scale))

BillingAmount_value(v) == v

\* BillingAmount.create with a zero too many in its upper bound
BillingAmount_create_WideBound(v) == createDecimal("BillingAmount", 0, 100000 * Scale, v)

BillingAmount_create(v) == createDecimal("BillingAmount", 0, 10000 * Scale, v)

RECURSIVE SumN(_)
SumN(prices) == IF prices = <<>> THEN 0 ELSE Head(prices).n + SumN(Tail(prices))

\* BillingAmount.sumPrices is imported from simple-types: the sum of the
\* prices, checked against the billing amount's bound
BillingAmount_sumPrices(prices) == BillingAmount_create(Num(SumN(prices)))

(***************************************************************************)
(* The public types of the workflow.                                       *)
(***************************************************************************)
createValidationError(msg) == [errType |-> "Validation", msg |-> msg]

createPricingError(msg) == [errType |-> "Pricing", msg |-> msg]

(***************************************************************************)
(* ValidateOrder step.                                                     *)
(***************************************************************************)
\* toCustomerInfo looking at the last name before the first name
toCustomerInfo_LastNameFirst(unvalidatedCustomerInfo) ==
    LET firstName    == String50_create("FirstName", unvalidatedCustomerInfo.firstName)
        lastName     == String50_create("LastName", unvalidatedCustomerInfo.lastName)
        emailAddress == String50_create("EmailAddress", unvalidatedCustomerInfo.emailAddress)
    IN IF ~IsString(lastName) THEN createValidationError(lastName.msg)
       ELSE IF ~IsString(firstName) THEN createValidationError(firstName.msg)
       ELSE IF ~IsString(emailAddress) THEN createValidationError(emailAddress.msg)
       ELSE [name |-> [firstName |-> firstName, lastName |-> lastName],
             emailAddress |-> emailAddress]

toCustomerInfo(unvalidatedCustomerInfo) ==
    LET firstName    == String50_create("FirstName", unvalidatedCustomerInfo.firstName)
        lastName     == String50_create("LastName", unvalidatedCustomerInfo.lastName)
        emailAddress == String50_create("EmailAddress", unvalidatedCustomerInfo.emailAddress)
    IN IF ~IsString(firstName) THEN createValidationError(firstName.msg)
       ELSE IF ~IsString(lastName) THEN createValidationError(lastName.msg)
       ELSE IF ~IsString(emailAddress) THEN createValidationError(emailAddress.msg)
       ELSE [name |-> [firstName |-> firstName, lastName |-> lastName],
             emailAddress |-> emailAddress]

toAddress(checkedAddress) ==
    LET addressLine1 == String50_create("AddressLine1", checkedAddress.addressLine1)
        addressLine2 == String50_create("AddressLine2", checkedAddress.addressLine2)
        addressLine3 == String50_create("AddressLine3", checkedAddress.addressLine3)
        addressLine4 == String50_create("AddressLine4", checkedAddress.addressLine4)
        city         == String50_create("AddressLine4", checkedAddress.city)
        zipCode      == ZipCode_create("AddressLine4", checkedAddress.zipCode)
    IN IF ~IsString(addressLine1) THEN createValidationError(addressLine1.msg)
       ELSE IF ~IsString(addressLine2) THEN createValidationError(addressLine2.msg)
       ELSE IF ~IsString(addressLine3) THEN createValidationError(addressLine3.msg)
       ELSE IF ~IsString(addressLine4) THEN createValidationError(addressLine4.msg)
       ELSE IF ~IsString(city) THEN createValidationError(city.msg)
       ELSE IF ~IsString(zipCode) THEN createValidationError(zipCode.msg)
       ELSE [addressLine1 |-> addressLine1, addressLine2 |-> addressLine2,
             addressLine3 |-> addressLine3, addressLine4 |-> addressLine4,
             city |-> city, zipCode |-> zipCode]

\* the part of toCheckedAddress that runs once checkAddress has answered
\* with checkedAddress
toCheckedAddress(checkedAddress) ==
    IF isErr(checkedAddress) THEN createValidationError(checkedAddress.msg)
    ELSE checkedAddress

toOrderId(orderIdStr) ==
    LET orderId == OrderId_create("OrderId", orderIdStr)
    IN IF ~IsString(orderId) THEN createValidationError(orderId.msg) ELSE orderId

toOrderLineId(orderId) ==
    LET orderLineId == OrderLineId_create("OrderLineId", orderId)
    IN IF ~IsString(orderLineId) THEN createValidationError(orderLineId.msg) ELSE orderLineId

\* checkProductCodeExists is the set of the product codes it answers true for;
\* 'Invalid: ' + p converts the object p to "[object Object]"
toProductCode(checkProductCodeExists, code) ==
    LET checkProduct(p) ==
            IF p \in checkProductCodeExists THEN p
            ELSE createValidationError([fmt |-> "Invalid: ${p}", p |-> "[object Object]"])
        return(checkedProductCode) ==
            IF isErr(checkedProductCode)
            THEN createValidationError(checkedProductCode.msg)
            ELSE checkedProductCode
        check(productCode) ==
            IF IsThrown(productCode) THEN productCode
            ELSE IF isErr(productCode) THEN createValidationError(productCode.msg)
            ELSE return(checkProduct(productCode))
    IN check(ProductCode_create("ProductCode", code))

toOrderQuantity(productCode, quantity) ==
    LET orderQuantity == OrderQuantity_create("OrderQuantity", productCode, quantity)
    IN IF isErr(orderQuantity) THEN createValidationError(orderQuantity.msg)
       ELSE orderQuantity

toValidateOrderLine(checkProductExists, unvalidatedOrderLine) ==
    LET orderLineId == toOrderLineId(unvalidatedOrderLine.orderLineId)
        return(productCode, quantity) ==
            IF isErr(quantity) THEN quantity
            ELSE [orderLineId |-> orderLineId, productCode |-> productCode,
                  quantity |-> quantity]
        withProductCode(productCode) ==
            IF IsThrown(productCode) THEN productCode
            ELSE IF isErr(productCode) THEN productCode
            ELSE return(productCode,
                        toOrderQuantity(productCode, unvalidatedOrderLine.quantity))
    IN IF isErr(orderLineId) THEN orderLineId
       ELSE withProductCode(toProductCode(checkProductExists,
                                          unvalidatedOrderLine.productCode))

\* the calls of checkProductCodeExists that toValidateOrderLine makes, each
\* with the answer it got
toValidateOrderLineCalls(checkProductExists, unvalidatedOrderLine) ==
    LET orderLineId == toOrderLineId(unvalidatedOrderLine.orderLineId)
        callFor(productCode) ==
            IF IsThrown(productCode) \/ isErr(productCode) THEN <<>>
            ELSE <<[fn |-> "checkProductCodeExists", arg |-> productCode,
                    ret |-> productCode \in checkProductExists]>>
    IN IF isErr(orderLineId) THEN <<>>
       ELSE callFor(ProductCode_create("ProductCode", unvalidatedOrderLine.productCode))

RECURSIVE Flatten(_)
Flatten(seqs) == IF seqs = <<>> THEN <<>> ELSE Head(seqs) \o Flatten(Tail(seqs))

\* unvalidatedOrder.lines.map(toValidateOrderLine.bind(null, checkProductCodeExists)):
\* the lines are converted in order, and an exception ends the map.  values
\* is the array the map returns, thrown the exception that ended it (Unset
\* if none did), calls the calls of checkProductCodeExists it made
mapToValidateOrderLine(checkProductCodeExists, lines) ==
    LET outcome(each) ==
            LET throws  == {i \in 1 .. Len(lines) : IsThrown(each[i])}
                reached == IF throws = {} THEN Len(lines)
                           ELSE CHOOSE i \in throws : \A j \in throws : i <= j
            IN [values |-> IF throws = {} THEN each ELSE <<>>,
                thrown |-> IF throws = {} THEN Unset ELSE each[reached],
                calls  |-> Flatten([i \in 1 .. reached |->
                                      toValidateOrderLineCalls(checkProductCodeExists,
                                                               lines[i])])]
    IN outcome([i \in 1 .. Len(lines) |->
                  toValidateOrderLine(checkProductCodeExists, lines[i])])

(***************************************************************************)
(* PriceOrder step.  getProductPrice is a function from product codes to   *)
(* prices.                                                                 *)
(***************************************************************************)
toPricedOrderLine(getProductPrice, validatedOrderLine) ==
    LET quantity  == validatedOrderLine.quantity
        price     == getProductPrice[validatedOrderLine.productCode]
        linePrice == Price_multiply(quantity, price)
    IN IF isErr(linePrice) THEN [errType |-> "Pricing", msg |-> linePrice.msg]
       ELSE [orderLineId |-> validatedOrderLine.orderLineId,
             productCode |-> validatedOrderLine.productCode,
             quantity |-> validatedOrderLine.quantity,
             linePrice |-> linePrice]

\* validatedOrder.lines.map(toPricedOrderLine.bind(null, getProductPrice))
mapToPricedOrderLine(getProductPrice, lines) ==
    [i \in 1 .. Len(lines) |-> toPricedOrderLine(getProductPrice, lines[i])]

\* the calls of getProductPrice that the map makes, each with the answer it got
mapToPricedOrderLineCalls(getProductPrice, lines) ==
    [i \in 1 .. Len(lines) |->
        [fn |-> "getProductPrice", arg |-> lines[i].productCode,
         ret |-> getProductPrice[lines[i].productCode]]]

priceOrder(getProductPrice, validatedOrder) ==
    LET split        == splitErr(mapToPricedOrderLine(getProductPrice, validatedOrder.lines))
        lines        == split[1]
        errs         == split[2]
        prices       == [i \in 1 .. Len(lines) |-> lines[i].linePrice]
        amountToBill == BillingAmount_sumPrices(prices)
    IN IF Len(errs) > 0 THEN createPricingError(errs[1].msg)
       ELSE IF isErr(amountToBill) THEN createPricingError(amountToBill.msg)
       ELSE [orderId |-> validatedOrder.orderId,
             customerInfo |-> validatedOrder.customerInfo,
             shippingAddress |-> validatedOrder.shippingAddress,
             billingAddress |-> validatedOrder.billingAddress,
             lines |-> lines,
             amountToBill |-> amountToBill]

(***************************************************************************)
(* AcknowledgeOrder step.  letter is what createOrderAcknowledgmentLetter  *)
(* answers for pricedOrder, sendResult what sendOrderAcknowledgment        *)
(* answers for the acknowledgment.  returns is the value acknowledgeOrder  *)
(* returns, calls the calls of the two capabilities it made.               *)
(***************************************************************************)
\* acknowledgeOrder returning the event whatever the answer of the send
acknowledgeOrder_AlwaysEvent(letter, sendResult, pricedOrder) ==
    LET acknowledgment == [emailAddress |-> pricedOrder.customerInfo.emailAddress,
                           letter |-> letter]
    IN [calls |->
          << [fn |-> "createOrderAcknowledgmentLetter", arg |-> pricedOrder, ret |-> letter],
             [fn |-> "sendOrderAcknowledgment", arg |-> acknowledgment, ret |-> sendResult] >>,
        returns |->
          [orderId |-> pricedOrder.orderId,
           emailAddress |-> pricedOrder.customerInfo.emailAddress]]

acknowledgeOrder(letter, sendResult, pricedOrder) ==
    LET acknowledgment == [emailAddress |-> pricedOrder.customerInfo.emailAddress,
                           letter |-> letter]
    IN [calls |->
          << [fn |-> "createOrderAcknowledgmentLetter", arg |-> pricedOrder, ret |-> letter],
             [fn |-> "sendOrderAcknowledgment", arg |-> acknowledgment, ret |-> sendResult] >>,
        returns |->
          CASE sendResult = "Sent" ->
                  [orderId |-> pricedOrder.orderId,
                   emailAddress |-> pricedOrder.customerInfo.emailAddress]
            [] sendResult = "NotSent" -> Null]

(***************************************************************************)
(* Create events.                                                          *)
(***************************************************************************)
createOrderPlacedEvent(placedOrder) == placedOrder

\* createBillingEvent with >= for >
createBillingEvent_NotNegative(placedOrder) ==
    LET billingAmount == BillingAmount_value(placedOrder.amountToBill)
    IN IF billingAmount.n >= 0
       THEN [orderId |-> placedOrder.orderId,
             billingAddress |-> placedOrder.billingAddress,
             amountToBill |-> placedOrder.amountToBill]
       ELSE Null

createBillingEvent(placedOrder) ==
    LET billingAmount == BillingAmount_value(placedOrder.amountToBill)
    IN IF billingAmount.n > 0
       THEN [orderId |-> placedOrder.orderId,
             billingAddress |-> placedOrder.billingAddress,
             amountToBill |-> placedOrder.amountToBill]
       ELSE Null

listOfOption(opt) == IF opt = Null THEN <<>> ELSE <<opt>>

createEvents(pricedOrder, orderAcknowledgmentEventOpt) ==
    LET acknowledgmentEvents == listOfOption(orderAcknowledgmentEventOpt)
        orderPlacedEvents    == <<createOrderPlacedEvent(pricedOrder)>>
        billingEvents        == listOfOption(createBillingEvent(pricedOrder))
    IN acknowledgmentEvents \o orderPlacedEvents \o billingEvents

(***************************************************************************)
(* The unvalidated orders the workflow is run on.  The fields the workflow *)
(* never reads (vipStatus, state, country) are left out.                   *)
(***************************************************************************)
\* a string of n characters
StrOfLen(n) == Str([i \in 1 .. n |-> "x"])

OrderIds == {Null, Str(<<>>), Str(<<"O", "1">>), StrOfLen(51)}

UnvalidatedCustomerInfos ==
    { [firstName |-> Str(<<"A", "l">>), lastName |-> Str(<<"B", "o">>),
       emailAddress |-> Str(<<"a", "@", "b">>)],
      [firstName |-> Str(<<"A", "l">>), lastName |-> StrOfLen(50),
       emailAddress |-> Str(<<"a", "b">>)],
      [firstName |-> Str(<<>>), lastName |-> Undefined,
       emailAddress |-> Str(<<"a", "@", "b">>)],
      [firstName |-> Str(<<"A", "l">>), lastName |-> Undefined,
       emailAddress |-> StrOfLen(51)],
      [firstName |-> Str(<<"A", "l">>), lastName |-> Str(<<"B", "o">>),
       emailAddress |-> StrOfLen(51)] }

UnvalidatedAddress(line1, line2, zipCode) ==
    [isValidated |-> FALSE,
     addressLine1 |-> line1, addressLine2 |-> line2,
     addressLine3 |-> Str(<<"c">>), addressLine4 |-> Str(<<"d">>),
     city |-> Str(<<"T">>), zipCode |-> zipCode]

ShippingAddressInput ==
    UnvalidatedAddress(Str(<<"S">>), Str(<<"b">>), Str(<<"1", "2", "3", "4", "5">>))

BillingAddressInput ==
    UnvalidatedAddress(Str(<<"B">>), Str(<<"b">>), Str(<<"1", "2", "3", "4", "5">>))

UnvalidatedOrderLine(orderLineId, productCode, quantity) ==
    [orderLineId |-> orderLineId, productCode |-> productCode, quantity |-> Num(quantity)]

\* ten units of W1234
WidgetLine == UnvalidatedOrderLine(Str(<<"L", "1">>), Str(<<"W", "1", "2", "3", "4">>), 10 * Scale)

\* a thousand units of a code the widget pattern accepts
BulkLine == UnvalidatedOrderLine(Str(<<"L", "2">>), Str(<<"W", "d", "d", "d", "d">>), 1000 * Scale)

UnvalidatedOrderLines ==
    { WidgetLine,
      BulkLine,
      UnvalidatedOrderLine(Str(<<"L", "3">>), Str(<<"G", "d", "d", "d">>), 1 * Scale),
      UnvalidatedOrderLine(Str(<<"L", "4">>), Str(<<"G", "1", "2", "3">>), 1 * Scale),
      UnvalidatedOrderLine(Str(<<"L", "5">>), Str(<<"X", "1">>), 1 * Scale),
      UnvalidatedOrderLine(Str(<<"L", "6">>), Null, 1 * Scale),
      UnvalidatedOrderLine(Str(<<>>), Str(<<"W", "1", "2">>), 1 * Scale) }

RECURSIVE SeqsUpTo(_, _)
SeqsUpTo(S, n) ==
    IF n = 0 THEN {<<>>}
    ELSE LET shorter == SeqsUpTo(S, n - 1)
         IN shorter \cup {Append(q, x) : q \in shorter, x \in S}

UnvalidatedLineLists ==
    SeqsUpTo(UnvalidatedOrderLines, MaxLines)
      \cup {[i \in 1 .. n |-> BulkLine] : n \in (MaxLines + 1) .. MaxBulkLines}

UnvalidatedOrders ==
    [orderId : OrderIds, customerInfo : UnvalidatedCustomerInfos,
     shippingAddress : {ShippingAddressInput}, billingAddress : {BillingAddressInput},
     lines : UnvalidatedLineLists]

(***************************************************************************)
(* The answers of the five capabilities.                                   *)
(***************************************************************************)
\* checkAddressExists answers with the address it was given, with an address
\* it has normalised, or with one of its two errors
CheckedAddress(address) == [address EXCEPT !.isValidated = TRUE]

NormalisedAddresses ==
    { UnvalidatedAddress(Str(<<"N">>), Str(<<"b">>), Str(<<"d", "d", "d", "d", "d">>)),
      UnvalidatedAddress(Str(<<"N">>), Str(<<>>), Str(<<"d", "d", "d", "d", "d">>)),
      UnvalidatedAddress(Str(<<"N">>), StrOfLen(51), Str(<<"d", "d", "d", "d", "d">>)),
      UnvalidatedAddress(StrOfLen(51), Str(<<>>), Str(<<"1", "2", "3", "4", "5">>)) }

CheckAddressExistsResults(address) ==
    {CheckedAddress(a) : a \in {address} \cup NormalisedAddresses}
      \cup { [errType |-> "InvalidFormat", msg |-> [fmt |-> "invalid format"]],
             [errType |-> "AddressNotFound", msg |-> [fmt |-> "address not found"]] }

\* the product codes ProductCode.create makes of the order lines' codes
ProductCodes ==
    LET made == {ProductCode_create("ProductCode", l.productCode) : l \in UnvalidatedOrderLines}
    IN {p \in made : ~IsThrown(p) /\ ~isErr(p)}

\* checkProductCodeExists: the set of codes it answers true for
CheckProductCodeExistsChoices == SUBSET ProductCodes

Prices == {Num(0), Num(1 * Scale), Num((5 * Scale) \div 2), Num(5 * Scale)}

GetProductPriceChoices == [ProductCodes -> Prices]

Letters == {Str(<<"h", "i">>), Str(<<"y", "o">>)}

SendResults == {"Sent", "NotSent"}

(***************************************************************************)
(* The workflow: one run of placeOrder(...)(order).  pc is where the run   *)
(* stands: "validateOrder" before validateOrder has run, "checkShipping"   *)
(* and "checkBilling" while it awaits checkAddressExists, "placeOrder"     *)
(* once validateOrder's promise is settled and placeOrder is to resume,    *)
(* "done" once placeOrder's promise is settled.  calls lists the calls of  *)
(* the capabilities in the order they were made.  result holds the value   *)
(* placeOrder's promise is settled with: an error, [events |-> the event   *)
(* list], or the exception it is rejected with.                            *)
(***************************************************************************)
Init ==
    /\ order \in UnvalidatedOrders
    /\ pc = "validateOrder"
    /\ calls = <<>>
    /\ frame = [orderId |-> Unset, customerInfo |-> Unset, shippingAddress |-> Unset]
    /\ validated = Unset
    /\ priced = Unset
    /\ ack = Unset
    /\ result = Unset
    /\ call = Unset
    /\ returned = Unset

\* a call of checkAddressExists, not answered yet
checkAddressExistsCall(address) ==
    [fn |-> "checkAddressExists", arg |-> address, ret |-> Unset]

\* calls, with the answer to its last call filled in
Answered(answer) == [calls EXCEPT ![Len(calls)].ret = answer]

\* validateOrder up to its first await
ValidateOrderBegin ==
    /\ pc = "validateOrder"
    /\ LET orderId      == toOrderId(order.orderId)
           customerInfo == toCustomerInfo(order.customerInfo)
       IN IF isErr(orderId)
          THEN /\ validated' = orderId
               /\ pc' = "placeOrder"
               /\ UNCHANGED <<calls, frame>>
          ELSE IF isErr(customerInfo)
          THEN /\ validated' = customerInfo
               /\ pc' = "placeOrder"
               /\ UNCHANGED <<calls, frame>>
          ELSE /\ frame' = [frame EXCEPT !.orderId = orderId, !.customerInfo = customerInfo]
               /\ calls' = Append(calls, checkAddressExistsCall(order.shippingAddress))
               /\ pc' = "checkShipping"
               /\ UNCHANGED validated
    /\ UNCHANGED <<order, priced, ack, result, call, returned>>

\* ShippingAddressChecked going on to the billing check although the shipping
\* address's fields were refused
ShippingAddressChecked_BillingAnyway ==
    /\ pc = "checkShipping"
    /\ \E answer \in CheckAddressExistsResults(order.shippingAddress) :
         LET checkedShippingAddress == toCheckedAddress(answer)
             shippingAddress        == toAddress(checkedShippingAddress)
         IN IF isErr(checkedShippingAddress)
            THEN /\ validated' = checkedShippingAddress
                 /\ calls' = Answered(answer)
                 /\ pc' = "placeOrder"
                 /\ UNCHANGED frame
            ELSE /\ frame' = [frame EXCEPT !.shippingAddress = shippingAddress]
                 /\ calls' = Append(Answered(answer),
                                    checkAddressExistsCall(order.billingAddress))
                 /\ pc' = "checkBilling"
                 /\ UNCHANGED validated
    /\ UNCHANGED <<order, priced, ack, result, call, returned>>

\* checkAddressExists answers for the shipping address; validateOrder runs
\* on to its second await
ShippingAddressChecked ==
    /\ pc = "checkShipping"
    /\ \E answer \in CheckAddressExistsResults(order.shippingAddress) :
         LET checkedShippingAddress == toCheckedAddress(answer)
             shippingAddress        == toAddress(checkedShippingAddress)
         IN IF isErr(checkedShippingAddress)
            THEN /\ validated' = checkedShippingAddress
                 /\ calls' = Answered(answer)
                 /\ pc' = "placeOrder"
                 /\ UNCHANGED frame
            ELSE IF isErr(shippingAddress)
            THEN /\ validated' = shippingAddress
                 /\ calls' = Answered(answer)
                 /\ pc' = "placeOrder"
                 /\ UNCHANGED frame
            ELSE /\ frame' = [frame EXCEPT !.shippingAddress = shippingAddress]
                 /\ calls' = Append(Answered(answer),
                                    checkAddressExistsCall(order.billingAddress))
                 /\ pc' = "checkBilling"
                 /\ UNCHANGED validated
    /\ UNCHANGED <<order, priced, ack, result, call, returned>>

\* checkAddressExists answers for the billing address; validateOrder runs to
\* its end
BillingAddressChecked ==
    /\ pc = "checkBilling"
    /\ \E answer \in CheckAddressExistsResults(order.billingAddress),
          checkProductCodeExists \in CheckProductCodeExistsChoices :
         LET checkedBillingAddress == toCheckedAddress(answer)
             billingAddress        == toAddress(checkedBillingAddress)
         IN IF isErr(checkedBillingAddress)
            THEN /\ validated' = checkedBillingAddress
                 /\ calls' = Answered(answer)
            ELSE IF isErr(billingAddress)
            THEN /\ validated' = billingAddress
                 /\ calls' = Answered(answer)
            ELSE \E mapped \in {mapToValidateOrderLine(checkProductCodeExists, order.lines)} :
                   LET split == splitErr(mapped.values)
                       lines == split[1]
                       errs  == split[2]
                   IN /\ calls' = Answered(answer) \o mapped.calls
                      /\ validated' =
                           IF IsThrown(mapped.thrown) THEN mapped.thrown
                           ELSE IF Len(errs) > 0 THEN errs[1]
                           ELSE [orderId |-> frame.orderId,
                                 customerInfo |-> frame.customerInfo,
                                 shippingAddress |-> frame.shippingAddress,
                                 billingAddress |-> billingAddress,
                                 lines |-> lines]
    /\ pc' = "placeOrder"
    /\ UNCHANGED <<order, frame, priced, ack, result, call, returned>>

\* placeOrder without its return of a pricing error: it goes on to ask for the
\* letter, and reading the email address of the error throws
placeOrder_NoPricingReturn(validatedOrder, getProductPrice, letter, sendResult) ==
    LET finish(pricedOrder, acknowledged, priceCalls) ==
            [priced |-> pricedOrder,
             ack    |-> acknowledged.returns,
             result |-> [events |-> createEvents(pricedOrder, acknowledged.returns)],
             calls  |-> priceCalls \o acknowledged.calls]
        afterPricing(pricedOrder, priceCalls) ==
            IF isErr(pricedOrder)
            THEN [priced |-> pricedOrder, ack |-> Unset, result |-> TypeError,
                  calls |-> Append(priceCalls,
                                   [fn |-> "createOrderAcknowledgmentLetter",
                                    arg |-> pricedOrder, ret |-> letter])]
            ELSE finish(pricedOrder, acknowledgeOrder(letter, sendResult, pricedOrder),
                        priceCalls)
    IN IF IsThrown(validatedOrder) \/ isErr(validatedOrder)
       THEN [priced |-> Unset, ack |-> Unset, result |-> validatedOrder, calls |-> <<>>]
       ELSE afterPricing(priceOrder(getProductPrice, validatedOrder),
                         mapToPricedOrderLineCalls(getProductPrice, validatedOrder.lines))

\* placeOrder after its await of validateOrder, which gave validatedOrder (or
\* threw it): the values of pricedOrder and acknowledgementOption (Unset if
\* not reached), what placeOrder's promise is settled with, and the calls of
\* the capabilities made
placeOrder(validatedOrder, getProductPrice, letter, sendResult) ==
    LET finish(pricedOrder, acknowledged, priceCalls) ==
            [priced |-> pricedOrder,
             ack    |-> acknowledged.returns,
             result |-> [events |-> createEvents(pricedOrder, acknowledged.returns)],
             calls  |-> priceCalls \o acknowledged.calls]
        afterPricing(pricedOrder, priceCalls) ==
            IF isErr(pricedOrder)
            THEN [priced |-> pricedOrder, ack |-> Unset, result |-> pricedOrder,
                  calls |-> priceCalls]
            ELSE finish(pricedOrder, acknowledgeOrder(letter, sendResult, pricedOrder),
                        priceCalls)
    IN IF IsThrown(validatedOrder) \/ isErr(validatedOrder)
       THEN [priced |-> Unset, ack |-> Unset, result |-> validatedOrder, calls |-> <<>>]
       ELSE afterPricing(priceOrder(getProductPrice, validatedOrder),
                         mapToPricedOrderLineCalls(getProductPrice, validatedOrder.lines))

\* the answers the capabilities may give in the rest of the run; none of
\* them is called when validateOrder failed
PlaceOrderAnswers ==
    LET all == GetProductPriceChoices \X Letters \X SendResults
    IN IF IsThrown(validated) \/ isErr(validated) THEN {CHOOSE a \in all : TRUE} ELSE all

PlaceOrderResume ==
    /\ pc = "placeOrder"
    /\ \E answers \in PlaceOrderAnswers :
         \E run \in {placeOrder(validated, answers[1], answers[2], answers[3])} :
            /\ priced' = run.priced
            /\ ack' = run.ack
            /\ result' = run.result
            /\ calls' = calls \o run.calls
    /\ pc' = "done"
    /\ UNCHANGED <<order, frame, validated, call, returned>>

Next ==
    \/ ValidateOrderBegin
    \/ ShippingAddressChecked
    \/ BillingAddressChecked
    \/ PlaceOrderResume

Spec == Init /\ [][Next]_vars

(***************************************************************************)
(* The constructors on their own: one call of a constructor of             *)
(* simple-types.  call is the constructor called and its arguments,        *)
(* returned the value it returns (Unset until it has returned).  The       *)
(* workflow's variables stand idle.                                        *)
(***************************************************************************)
\* the strings given to the string constructors: absent, empty, and of
\* lengths around the bounds
StringInputs ==
    {Null, Undefined} \cup {StrOfLen(n) : n \in {0, 1, 2, 3, 4, 49, 50, 51}}

\* the bounds createString is called with
MaxLens == {3, 50}

\* the numbers given to the numeric constructors, in hundredths: around the
\* bounds 0, 0.05, 0.5, 1, 100, 1000 and 10000, integers and non-integers
NumberInputs ==
    {Num(n) : n \in {-100, -1, 0, 1, 4, 5, 25, 49, 50, 99, 100, 250, 9999,
                     10000, 10001, 50000, 50050, 100000, 100001, 150000,
                     999950, 1000000, 1000001}}

\* the bounds createInt and createDecimal are called with
Ranges ==
    { <<1 * Scale, 1000 * Scale>>, <<Scale \div 2, 100 * Scale>>,
      <<0, 1000 * Scale>>, <<0, 10000 * Scale>> }

ConstructorCalls ==
    [fn : {"createString", "createStringOption"},
     args : {"FieldName"} \X MaxLens \X StringInputs]
      \cup [fn : {"String50.create", "OrderId.create", "OrderLineId.create"},
            args : {"FieldName"} \X StringInputs]
      \cup [fn : {"createInt", "createDecimal"},
            args : {<<"FieldName", r[1], r[2], v>> : r \in Ranges, v \in NumberInputs}]
      \cup [fn : {"UnitQuantity.create", "KilogramQuantity.create"},
            args : {"FieldName"} \X NumberInputs]
      \cup [fn : {"OrderQuantity.create"},
            args : {"OrderQuantity"} \X ProductCodes \X NumberInputs]
      \cup [fn : {"Price.create", "BillingAmount.create"},
            args : {<<v>> : v \in NumberInputs}]

InitCreate ==
    /\ call \in ConstructorCalls
    /\ returned = Unset
    /\ order = Unset
    /\ pc = "create"
    /\ calls = <<>>
    /\ frame = Unset
    /\ validated = Unset
    /\ priced = Unset
    /\ ack = Unset
    /\ result = Unset

\* the call of fn returns value
Returns(fn, value) ==
    /\ call.fn = fn
    /\ returned = Unset
    /\ returned' = value
    /\ UNCHANGED <<order, pc, calls, frame, validated, priced, ack, result, call>>

Call_createString ==
    Returns("createString", createString(call.args[1], call.args[2], call.args[3]))

Call_createStringOption ==
    Returns("createStringOption",
            createStringOption(call.args[1], call.args[2], call.args[3]))

Call_createInt ==
    Returns("createInt",
            createInt(call.args[1], call.args[2], call.args[3], call.args[4]))

Call_createDecimal ==
    Returns("createDecimal",
            createDecimal(call.args[1], call.args[2], call.args[3], call.args[4]))

Call_String50_create ==
    Returns("String50.create", String50_create(call.args[1], call.args[2]))

Call_OrderId_create ==
    Returns("OrderId.create", OrderId_create(call.args[1], call.args[2]))

Call_OrderLineId_create ==
    Returns("OrderLineId.create", OrderLineId_create(call.args[1], call.args[2]))

Call_UnitQuantity_create ==
    Returns("UnitQuantity.create", UnitQuantity_create(call.args[1], call.args[2]))

Call_KilogramQuantity_create ==
    Returns("KilogramQuantity.create", KilogramQuantity_create(call.args[1], call.args[2]))

Call_OrderQuantity_create ==
    Returns("OrderQuantity.create",
            OrderQuantity_create(call.args[1], call.args[2], call.args[3]))

Call_Price_create == Returns("Price.create", Price_create(call.args[1]))

Call_BillingAmount_create ==
    Returns("BillingAmount.create", BillingAmount_create(call.args[1]))

NextCreate ==
    \/ Call_createString
    \/ Call_createStringOption
    \/ Call_createInt
    \/ Call_createDecimal
    \/ Call_String50_create
    \/ Call_OrderId_create
    \/ Call_OrderLineId_create
    \/ Call_UnitQuantity_create
    \/ Call_KilogramQuantity_create
    \/ Call_OrderQuantity_create
    \/ Call_Price_create
    \/ Call_BillingAmount_create

SpecCreate == InitCreate /\ [][NextCreate]_vars

(***************************************************************************)
(* Properties.                                                             *)
(***************************************************************************)
Done == pc = "done"

IsEventList(v) == "events" \in DOMAIN v

\* the calls made so far of the capabilities named in fns
CallsOf(fns) == SelectSeq(calls, LAMBDA c : c.fn \in fns)

\* the three kinds of event, told apart by their fields
IsAcknowledgmentSent(e) == DOMAIN e = {"orderId", "emailAddress"}

IsOrderPlaced(e) == "lines" \in DOMAIN e

IsBillableOrderPlaced(e) == DOMAIN e = {"orderId", "billingAddress", "amountToBill"}

PricingSucceeded == priced # Unset /\ ~isErr(priced)

\* C1: every run of placeOrder ends with a non-empty event list or with an
\* error tagged Validation or Pricing; a validation error is returned as it
\* is, a pricing error is returned as it is, and once pricing has succeeded
\* the result is an event list.
C1_ResultIsEventsOrError ==
    Done =>
      /\ \/ IsEventList(result) /\ Len(result.events) >= 1
         \/ isErr(result) /\ result.errType \in {"Validation", "Pricing"}
      /\ isErr(validated) => result = validated
      /\ priced # Unset /\ isErr(priced) => result = priced
      /\ PricingSucceeded => IsEventList(result)

\* C2: when validation fails, getProductPrice, createOrderAcknowledgmentLetter
\* and sendOrderAcknowledgment are never called; when pricing fails,
\* createOrderAcknowledgmentLetter and sendOrderAcknowledgment are never called.
C2_NoCallsAfterFailure ==
    /\ validated # Unset /\ (isErr(validated) \/ IsThrown(validated)) =>
         CallsOf({"getProductPrice", "createOrderAcknowledgmentLetter",
                  "sendOrderAcknowledgment"}) = <<>>
    /\ priced # Unset /\ isErr(priced) =>
         CallsOf({"createOrderAcknowledgmentLetter", "sendOrderAcknowledgment"}) = <<>>

\* a run ended by a pricing error, after getProductPrice was called
C2_Witness ==
    /\ Done
    /\ priced # Unset /\ isErr(priced) /\ result = priced
    /\ CallsOf({"getProductPrice"}) # <<>>

\* C3: the events of a successful run are exactly: the acknowledgment event
\* (present iff acknowledgeOrder returned one), then the order-placed event
\* carrying the priced order, then a billable-order-placed event (present iff
\* amountToBill is greater than 0); so an acknowledgment event comes before
\* the order-placed event, which comes before any billing event.
C3_EventsInOrder ==
    Done /\ PricingSucceeded =>
      LET events  == result.events
          n       == Len(events)
          hasAck  == ack # Null
          hasBill == priced.amountToBill.n > 0
          placed  == IF hasAck THEN 2 ELSE 1
      IN /\ n = placed + (IF hasBill THEN 1 ELSE 0)
         /\ hasAck => events[1] = ack /\ IsAcknowledgmentSent(events[1])
         /\ events[placed] = priced
         /\ hasBill => events[n] = [orderId |-> priced.orderId,
                                    billingAddress |-> priced.billingAddress,
                                    amountToBill |-> priced.amountToBill]
         /\ \A i, j \in 1 .. n :
              /\ IsAcknowledgmentSent(events[i]) /\ IsOrderPlaced(events[j]) => i < j
              /\ IsOrderPlaced(events[i]) /\ IsBillableOrderPlaced(events[j]) => i < j

\* a run that returned all three events
C3_Witness ==
    /\ Done /\ PricingSucceeded
    /\ Len(result.events) = 3
    /\ IsAcknowledgmentSent(result.events[1])
    /\ IsBillableOrderPlaced(result.events[3])

\* C4: acknowledgeOrder asks for the letter once and calls
\* sendOrderAcknowledgment exactly once, with the customer's email address and
\* that letter; it returns an OrderAcknowledgmentSent event carrying the
\* order's id and email address iff the answer is Sent, and null iff it is
\* NotSent.
C4_AcknowledgeOnce ==
    Done /\ PricingSucceeded =>
      LET letters == CallsOf({"createOrderAcknowledgmentLetter"})
          sends   == CallsOf({"sendOrderAcknowledgment"})
      IN /\ Len(letters) = 1 /\ letters[1].arg = priced
         /\ Len(sends) = 1
         /\ sends[1].arg = [emailAddress |-> priced.customerInfo.emailAddress,
                            letter |-> letters[1].ret]
         /\ sends[1].ret \in {"Sent", "NotSent"}
         /\ sends[1].ret = "Sent" <=>
              ack = [orderId |-> priced.orderId,
                     emailAddress |-> priced.customerInfo.emailAddress]
         /\ sends[1].ret = "NotSent" <=> ack = Null

\* a run in which the acknowledgment was not sent
C4_Witness ==
    /\ Done /\ PricingSucceeded
    /\ CallsOf({"sendOrderAcknowledgment"}) # <<>>
    /\ CallsOf({"sendOrderAcknowledgment"})[1].ret = "NotSent"
    /\ ack = Null

\* the order of the end-to-end example: one line of ten units of W1234
IsExampleOrder ==
    /\ order.orderId = Str(<<"O", "1">>)
    /\ order.customerInfo = [firstName |-> Str(<<"A", "l">>), lastName |-> Str(<<"B", "o">>),
                             emailAddress |-> Str(<<"a", "@", "b">>)]
    /\ order.lines = <<WidgetLine>>

\* C5: for the example order, with checkAddressExists succeeding,
\* checkProductCodeExists answering true and getProductPrice answering 5.00,
\* placeOrder returns an event list holding the order-placed event with
\* amountToBill 50.00 and a billable-order-placed event with amountToBill
\* 50.00, and the acknowledgment event iff the send answered Sent.
C5_EndToEndSuccess ==
    LET checks   == CallsOf({"checkAddressExists"})
        products == CallsOf({"checkProductCodeExists"})
        prices   == CallsOf({"getProductPrice"})
        sends    == CallsOf({"sendOrderAcknowledgment"})
    IN ( /\ Done
         /\ IsExampleOrder
         /\ \A i \in 1 .. Len(checks) : ~isErr(checks[i].ret)
         /\ \A i \in 1 .. Len(products) : products[i].ret = TRUE
         /\ \A i \in 1 .. Len(prices) : prices[i].ret = Num(5 * Scale) )
       => /\ IsEventList(result)
          /\ \E i \in 1 .. Len(result.events) :
               /\ IsOrderPlaced(result.events[i])
               /\ result.events[i].amountToBill = Num(50 * Scale)
          /\ \E i \in 1 .. Len(result.events) :
               /\ IsBillableOrderPlaced(result.events[i])
               /\ result.events[i].amountToBill = Num(50 * Scale)
          /\ (\E i \in 1 .. Len(result.events) : IsAcknowledgmentSent(result.events[i]))
               <=> (Len(sends) = 1 /\ sends[1].ret = "Sent")

\* C6: no exception crosses the boundary of placeOrder: validateOrder and
\* placeOrder settle with a tagged value (an event list or an error value),
\* whatever the order's fields are, null and undefined included, because the
\* constructors return error values and do not throw.
C6_NoException ==
    /\ ~IsThrown(validated)
    /\ ~IsThrown(result)
    /\ Done => IsEventList(result) \/ isErr(result)

IsValidationError(v) == isErr(v) /\ v.errType = "Validation"

IsValidatedOrder(v) == v # Unset /\ ~isErr(v) /\ ~IsThrown(v)

\* C7: validateOrder takes its steps in the order: order id; first name, last
\* name, email; shipping address check, shipping address fields, billing
\* address check, billing address fields; order lines.  The ValidationError
\* it returns is that of the earliest failing step, no later step is run
\* after a failure (no capability is called once a step has failed), and a
\* validated order is returned only when every step succeeded, with all the
\* lines of the order.
C7_EarliestFailingStep ==
    validated # Unset =>
      LET orderId   == OrderId_create("OrderId", order.orderId)
          firstName == String50_create("FirstName", order.customerInfo.firstName)
          lastName  == String50_create("LastName", order.customerInfo.lastName)
          email     == String50_create("EmailAddress", order.customerInfo.emailAddress)
          checks    == CallsOf({"checkAddressExists"})
          products  == CallsOf({"checkProductCodeExists"})
          stepFails(err) == /\ validated = createValidationError(err.msg)
                            /\ calls = checks
      IN IF isErr(orderId) THEN stepFails(orderId) /\ calls = <<>>
         ELSE IF isErr(firstName) THEN stepFails(firstName) /\ calls = <<>>
         ELSE IF isErr(lastName) THEN stepFails(lastName) /\ calls = <<>>
         ELSE IF isErr(email) THEN stepFails(email) /\ calls = <<>>
         ELSE /\ Len(checks) >= 1
              /\ calls[1] = checks[1]
              /\ checks[1].arg = order.shippingAddress
              /\ IF isErr(checks[1].ret)
                 THEN stepFails(checks[1].ret) /\ Len(calls) = 1
                 ELSE IF isErr(toAddress(checks[1].ret))
                 THEN validated = toAddress(checks[1].ret) /\ Len(calls) = 1
                 ELSE /\ Len(checks) = 2
                      /\ calls[2] = checks[2]
                      /\ checks[2].arg = order.billingAddress
                      /\ IF isErr(checks[2].ret)
                         THEN stepFails(checks[2].ret) /\ Len(calls) = 2
                         ELSE IF isErr(toAddress(checks[2].ret))
                         THEN validated = toAddress(checks[2].ret) /\ Len(calls) = 2
                         ELSE /\ calls = checks \o products \o CallsOf({"getProductPrice",
                                   "createOrderAcknowledgmentLetter", "sendOrderAcknowledgment"})
                              /\ IsValidatedOrder(validated) =>
                                   /\ validated.orderId = order.orderId
                                   /\ validated.customerInfo =
                                        [name |-> [firstName |-> order.customerInfo.firstName,
                                                   lastName |-> order.customerInfo.lastName],
                                         emailAddress |-> order.customerInfo.emailAddress]
                                   /\ validated.shippingAddress = toAddress(checks[1].ret)
                                   /\ validated.billingAddress = toAddress(checks[2].ret)
                                   /\ Len(validated.lines) = Len(order.lines)
                                   /\ \A i \in 1 .. Len(order.lines) :
                                        /\ validated.lines[i].orderLineId = order.lines[i].orderLineId
                                        /\ validated.lines[i].productCode.code = order.lines[i].productCode

\* validateOrder returned the error of the billing address fields, after the
\* shipping address passed, and before any order line was looked at
C7_Witness ==
    /\ pc = "placeOrder"
    /\ IsValidationError(validated)
    /\ Len(calls) = 2
    /\ ~isErr(calls[2].ret)
    /\ validated = toAddress(calls[2].ret)
    /\ Len(order.lines) > 0

\* C8: an order line whose product code has a recognized format and for which
\* checkProductCodeExists answers false makes validateOrder, and so
\* placeOrder, return a ValidationError; the line is not dropped, and every
\* product code of a validated order is one checkProductCodeExists answered
\* true for.
C8_MissingProductIsError ==
    LET products == CallsOf({"checkProductCodeExists"})
        missing  == \E i \in 1 .. Len(products) : products[i].ret = FALSE
    IN /\ validated # Unset /\ missing => IsValidationError(validated)
       /\ Done /\ missing => IsValidationError(result)
       /\ IsValidatedOrder(validated) =>
            /\ Len(validated.lines) = Len(order.lines)
            /\ \A i \in 1 .. Len(validated.lines) :
                 \E j \in 1 .. Len(products) :
                    /\ products[j].arg = validated.lines[i].productCode
                    /\ products[j].ret = TRUE

\* the sum of the line prices: each line's quantity times the unit price
\* getProductPrice answered for it
RECURSIVE SumOfLinePrices(_, _)
SumOfLinePrices(lines, answers) ==
    IF lines = <<>> THEN 0
    ELSE (Head(lines).quantity.quantity.n * Head(answers).ret.n) \div Scale
           + SumOfLinePrices(Tail(lines), Tail(answers))

\* every line price lies in [0.00, 1000.00]
LinePricesInBound ==
    LET answers == CallsOf({"getProductPrice"})
    IN \A i \in 1 .. Len(validated.lines) :
         LET linePrice == (validated.lines[i].quantity.quantity.n * answers[i].ret.n) \div Scale
         IN 0 <= linePrice /\ linePrice <= 1000 * Scale

\* C9: priceOrder returns a priced order only if every line price (quantity
\* times unit price) lies in [0.00, 1000.00] and the sum of the line prices
\* lies in [0.00, 10000.00], and then amountToBill is that sum; if every line
\* price is in its bound and the sum exceeds 10000.00, priceOrder returns a
\* PricingError.
C9_BillingAmountBound ==
    priced # Unset =>
      LET total == SumOfLinePrices(validated.lines, CallsOf({"getProductPrice"}))
      IN /\ ~isErr(priced) =>
              /\ LinePricesInBound
              /\ 0 <= total /\ total <= 10000 * Scale
              /\ priced.amountToBill = Num(total)
              /\ Len(priced.lines) = Len(validated.lines)
         /\ LinePricesInBound /\ total > 10000 * Scale =>
              isErr(priced) /\ priced.errType = "Pricing"

\* every line price is in its bound, the sum is not, and priceOrder returned
\* a PricingError
C9_Witness ==
    /\ priced # Unset /\ isErr(priced) /\ priced.errType = "Pricing"
    /\ LinePricesInBound
    /\ SumOfLinePrices(validated.lines, CallsOf({"getProductPrice"})) > 10000 * Scale

IsLetterAndDigits(str, letter, n) ==
    /\ Len(str) = n + 1
    /\ str[1] = letter
    /\ \A j \in 2 .. Len(str) : str[j] \in Digits

\* C10: ProductCode.create makes of W and four digits the widget code with
\* that value, of G and three digits the gizmo code, of any other string that
\* starts with W or G a DoesNotMatch error, and of a string that starts with
\* neither an UnknownFormat error.
C10_ProductCodeFormats ==
    \A i \in 1 .. Len(order.lines) :
      LET code    == order.lines[i].productCode
          made    == ProductCode_create("ProductCode", code)
          isW     == startsWith(code.s, <<"W">>)
          isG     == startsWith(code.s, <<"G">>)
          widget  == IsLetterAndDigits(code.s, "W", 4)
          gizmo   == IsLetterAndDigits(code.s, "G", 3)
      IN IsString(code) =>
           /\ widget => made = [productType |-> "widget", code |-> code]
           /\ gizmo => made = [productType |-> "gizmo", code |-> code]
           /\ (isW \/ isG) /\ ~widget /\ ~gizmo => isErr(made) /\ made.errType = "DoesNotMatch"
           /\ ~isW /\ ~isG => isErr(made) /\ made.errType = "UnknownFormat"

\* the constructor calls that have returned
Returned(fns) == call # Unset /\ call.fn \in fns /\ returned # Unset

\* C11: OrderQuantity.create picks the variant from the product code's tag:
\* for a widget code it returns the Unit quantity of v exactly when v is an
\* integer in [1, 1000], and TooBig for 1500; for a gizmo code it returns the
\* Kilogram quantity of v exactly when v is a decimal in [0.05, 100.00]
\* (Kilogram 2.5 for 2.5, TooSmall for 0.01); a widget never gets a Kilogram
\* quantity nor a gizmo a Unit quantity.
C11_OrderQuantityVariant ==
    Returned({"OrderQuantity.create"}) =>
      LET productCode == call.args[2]
          v           == call.args[3]
          unit        == [quantityType |-> "Unit", quantity |-> v]
          kilogram    == [quantityType |-> "Kilogram", quantity |-> v]
      IN /\ productCode.productType = "widget" =>
              /\ returned = unit <=> (v.n % Scale = 0 /\ v.n >= 1 * Scale /\ v.n <= 1000 * Scale)
              /\ v = Num(1500 * Scale) => isErr(returned) /\ returned.errType = "TooBig"
              /\ ~isErr(returned) => returned.quantityType = "Unit"
         /\ productCode.productType = "gizmo" =>
              /\ returned = kilogram <=> (v.n >= 5 /\ v.n <= 100 * Scale)
              /\ v = Num(1) => isErr(returned) /\ returned.errType = "TooSmall"
              /\ ~isErr(returned) => returned.quantityType = "Kilogram"

\* C12: the bounded numeric constructors answer TooSmall below min, TooBig
\* above max, and the value itself within [min, max]: createInt for the
\* integers, createDecimal for every value, non-integers included, and so
\* Price.create on [0, 1000] and BillingAmount.create on [0, 10000].
C12_BoundedNumbers ==
    LET Bounded(minVal, maxVal, v) ==
            /\ v.n < minVal => isErr(returned) /\ returned.errType = "TooSmall"
            /\ v.n > maxVal => isErr(returned) /\ returned.errType = "TooBig"
            /\ (v.n >= minVal /\ v.n <= maxVal) => returned = v
    IN /\ Returned({"createInt"}) /\ call.args[4].n % Scale = 0 =>
            Bounded(call.args[2], call.args[3], call.args[4])
       /\ Returned({"createDecimal"}) =>
            Bounded(call.args[2], call.args[3], call.args[4])
       /\ Returned({"Price.create"}) => Bounded(0, 1000 * Scale, call.args[1])
       /\ Returned({"BillingAmount.create"}) => Bounded(0, 10000 * Scale, call.args[1])

OptionalLines == {"addressLine2", "addressLine3", "addressLine4"}

\* a checked address whose mandatory fields the constructors accept
HasValidMandatoryFields(a) ==
    /\ IsString(String50_create("AddressLine1", a.addressLine1))
    /\ IsString(String50_create("City", a.city))
    /\ IsString(ZipCode_create("ZipCode", a.zipCode))

\* address is the Address made of the checked address a, with null for each
\* empty optional line
IsAddressOf(address, a) ==
    /\ ~isErr(address)
    /\ address # Unset
    /\ \A f \in OptionalLines :
         address[f] = (IF a[f] \in {Null, Undefined, Str(<<>>)} THEN Null ELSE a[f])

\* a ValidationError made of the error of an address line's constructor
IsAddressLineError(v, fmt) ==
    /\ isErr(v)
    /\ v.errType = "Validation"
    /\ v.msg.fmt = fmt
    /\ v.msg.fieldName \in {"AddressLine2", "AddressLine3", "AddressLine4"}

\* C14: the optional address lines are optional: when checkAddressExists
\* answers with an address whose addressLine1, city and zip code are valid and
\* whose optional lines are empty or of at most 50 characters, validateOrder
\* builds the address, with null for each empty optional line, and returns
\* no ValidationError for it; an optional line of more than 50 characters is
\* an error.
C14_OptionalAddressLines ==
    LET checks == CallsOf({"checkAddressExists"})
        Short(a) == \A f \in OptionalLines : ~IsString(a[f]) \/ Len(a[f].s) <= 50
        Answer(i) == checks[i].ret
        Applies(i) == /\ i <= Len(checks)
                      /\ Answer(i) # Unset
                      /\ ~isErr(Answer(i))
                      /\ HasValidMandatoryFields(Answer(i))
        TooLong == "${fieldName} must not be more than ${maxLen} chars"
        Empty   == "${fieldName} must not be null or undefined or empty"
    IN /\ (Applies(1) /\ Short(Answer(1))) =>
            IsAddressOf(frame.shippingAddress, Answer(1))
       /\ (Applies(2) /\ Short(Answer(2))) =>
            /\ ~IsAddressLineError(validated, Empty)
            /\ ~IsAddressLineError(validated, TooLong)
            /\ (validated # Unset /\ ~isErr(validated) /\ ~IsThrown(validated)) =>
                 IsAddressOf(validated.billingAddress, Answer(2))
       /\ \A i \in {1, 2} :
            (Applies(i) /\ ~Short(Answer(i))) => IsAddressLineError(validated, TooLong)

\* C15: checkAddressExists is called at most twice in a run and never while
\* an earlier call of it is unanswered: the first call is for the shipping
\* address; the call for the billing address is made only once the shipping
\* check has answered with an address and the shipping address's fields have
\* been built; when the shipping check or the building of the shipping
\* address fails, there is no call for the billing address.
C15_AddressChecksInSequence ==
    LET checks == CallsOf({"checkAddressExists"})
        IsBuilt(address) == address # Unset /\ ~isErr(address)
    IN /\ Len(checks) <= 2
       /\ \A i \in 1 .. Len(checks) : checks[i].ret = Unset => i = Len(checks)
       /\ Len(checks) >= 1 => checks[1].arg = order.shippingAddress
       /\ Len(checks) = 2 =>
            /\ checks[2].arg = order.billingAddress
            /\ checks[1].ret # Unset
            /\ ~isErr(checks[1].ret)
            /\ IsBuilt(frame.shippingAddress)
       /\ (/\ Len(checks) >= 1
           /\ checks[1].ret # Unset
           /\ isErr(checks[1].ret) \/ ~IsBuilt(frame.shippingAddress)) =>
            /\ Len(checks) = 1
            /\ isErr(validated)

\* the billing check has been called and not answered yet, the shipping
\* check having answered with an address
C15_Witness ==
    LET checks == CallsOf({"checkAddressExists"})
    IN /\ Len(checks) = 2
       /\ checks[2].ret = Unset
       /\ ~isErr(checks[1].ret)
       /\ pc = "checkBilling"

\* validateOrder has run to its end and has got as far as the order lines:
\* both address checks answered with addresses whose fields were accepted
LinesReached ==
    LET checks == CallsOf({"checkAddressExists"})
    IN /\ validated # Unset
       /\ Len(checks) = 2
       /\ checks[2].ret # Unset
       /\ ~isErr(checks[2].ret)
       /\ ~isErr(toAddress(checks[2].ret))

\* the product codes checkProductCodeExists has answered true for
CatalogSeen ==
    LET products == CallsOf({"checkProductCodeExists"})
    IN {products[i].arg : i \in {j \in 1 .. Len(products) : products[j].ret = TRUE}}

\* line's id is valid and its product code has the format of a product code
HasValidIdAndCode(line) ==
    /\ ~isErr(OrderLineId_create("OrderLineId", line.orderLineId))
    /\ IsString(line.productCode)
    /\ ~isErr(ProductCode_create("ProductCode", line.productCode))

\* C16: once validateOrder has reached the order lines, every line is
\* validated whatever became of the lines before it (checkProductCodeExists
\* is asked about each line whose id and product code format are valid, in
\* the order of the lines), and when a line fails validateOrder returns the
\* ValidationError of the failing line of lowest index.
C16_FirstLineErrorAfterAllLines ==
    LinesReached =>
      LET n          == Len(order.lines)
          products   == CallsOf({"checkProductCodeExists"})
          asked      == SelectSeq(order.lines, HasValidIdAndCode)
          outcome(i) == toValidateOrderLine(CatalogSeen, order.lines[i])
          failing    == {i \in 1 .. n : IsThrown(outcome(i)) \/ isErr(outcome(i))}
          first      == CHOOSE i \in failing : \A j \in failing : i <= j
      IN /\ Len(products) = Len(asked)
         /\ \A i \in 1 .. Len(asked) :
              products[i].arg = ProductCode_create("ProductCode", asked[i].productCode)
         /\ IF failing = {}
            THEN ~isErr(validated) /\ ~IsThrown(validated) /\ Len(validated.lines) = n
            ELSE /\ isErr(validated)
                 /\ validated.errType = "Validation"
                 /\ ~IsThrown(outcome(first)) => validated = outcome(first)

\* the quantity of the i-th validated line times the unit price
\* getProductPrice answered for it, in hundredths
LineProduct(i) ==
    (validated.lines[i].quantity.quantity.n * CallsOf({"getProductPrice"})[i].ret.n)
      \div Scale

\* the lines whose product lies outside the bound of Price, [0.00, 1000.00]
LinesOutOfBound ==
    {i \in 1 .. Len(validated.lines) : LineProduct(i) < 0 \/ LineProduct(i) > 1000 * Scale}

\* C17: priceOrder asks getProductPrice for every line and prices the line as
\* its quantity times that unit price, checked against the bound of Price,
\* [0.00, 1000.00]; if the product of any line is out of bound, priceOrder
\* returns a PricingError, never a priced order, with the bounded-decimal
\* error message of the out-of-bound line of lowest index (and so not a
\* message about the billing sum, which is not computed).
C17_LinePriceBound ==
    priced # Unset =>
      LET answers == CallsOf({"getProductPrice"})
          first   == CHOOSE i \in LinesOutOfBound : \A j \in LinesOutOfBound : i <= j
          message(i) ==
              IF LineProduct(i) < 0
              THEN [fmt |-> "${i}: Must not be less than ${minVal}",
                    i |-> LineProduct(i), minVal |-> 0]
              ELSE [fmt |-> "${i}: Must not be greater than ${maxVal}",
                    i |-> LineProduct(i), maxVal |-> 1000 * Scale]
      IN /\ Len(answers) = Len(validated.lines)
         /\ \A i \in 1 .. Len(answers) : answers[i].arg = validated.lines[i].productCode
         /\ ~isErr(priced) =>
              \A i \in 1 .. Len(priced.lines) : priced.lines[i].linePrice = Num(LineProduct(i))
         /\ LinesOutOfBound # {} =>
              /\ isErr(priced)
              /\ priced.errType = "Pricing"
              /\ priced.msg = message(first)

\* a non-empty string of at most maxLen characters
IsBoundedString(v, maxLen) == IsString(v) /\ Len(v.s) >= 1 /\ Len(v.s) <= maxLen

\* something, an @, something
IsEmailShaped(v) ==
    IsString(v) /\ \E i \in 2 .. (Len(v.s) - 1) : v.s[i] = "@"

\* five digits
IsFiveDigitZip(v) ==
    IsString(v) /\ Len(v.s) = 5 /\ \A i \in 1 .. 5 : v.s[i] \in Digits

\* the validated order's names, ids and addresses' mandatory lines are
\* bounded strings
HasBoundedStrings(o) ==
    /\ IsBoundedString(o.orderId, 50)
    /\ IsBoundedString(o.customerInfo.name.firstName, 50)
    /\ IsBoundedString(o.customerInfo.name.lastName, 50)
    /\ \A i \in 1 .. Len(o.lines) : IsBoundedString(o.lines[i].orderLineId, 50)

\* each line's quantity is of the variant of its product code, and in the
\* variant's range
HasMatchingQuantities(o) ==
    \A i \in 1 .. Len(o.lines) :
      LET productCode == o.lines[i].productCode
          quantity    == o.lines[i].quantity
      IN CASE productCode.productType = "widget" ->
                /\ quantity.quantityType = "Unit"
                /\ quantity.quantity.n % Scale = 0
                /\ quantity.quantity.n >= 1 * Scale /\ quantity.quantity.n <= 1000 * Scale
           [] productCode.productType = "gizmo" ->
                /\ quantity.quantityType = "Kilogram"
                /\ quantity.quantity.n >= 5 /\ quantity.quantity.n <= 100 * Scale

\* C18: every validated order validateOrder returns has each field within
\* the constraint of its type: the order id, the line ids and the names are
\* non-empty strings of at most 50 characters, the email address is one that
\* EmailAddress.create accepts and has the shape of an email address, each
\* address's zip code is one that ZipCode.create accepts and is a five-digit
\* zip, and each line's quantity is of its product code's variant and in the
\* variant's range.
C18_ValidatedOrderWellTyped ==
    IsValidatedOrder(validated) =>
      /\ HasBoundedStrings(validated)
      /\ ~isErr(EmailAddress_create("EmailAddress", validated.customerInfo.emailAddress))
      /\ IsEmailShaped(validated.customerInfo.emailAddress)
      /\ \A address \in {validated.shippingAddress, validated.billingAddress} :
           /\ ~isErr(ZipCode_create("ZipCode", address.zipCode))
           /\ IsFiveDigitZip(address.zipCode)
      /\ HasMatchingQuantities(validated)

====
